---------------------------- MODULE Spec2Model ----------------------------
(***************************************************************************)
(* Model of the statistical toolkit of alu-machine_learning:               *)
(*   math/multivariate_prob/0-mean_cov.py       mean_cov(X)                *)
(*   math/multivariate_prob/1-correlation.py    correlation(C)             *)
(*   unsupervised_learning/dimensionality_reduction/0-pca.py  pca(X, var)  *)
(*                                                                         *)
(* Numbers are exact: a number is <<p, q, r>>, the real (p/q)*sqrt(r) in   *)
(* lowest terms with r squarefree, so that the square roots correlation    *)
(* takes of rational variances are represented without rounding.  The      *)
(* three IEEE specials the code can produce are kept as values: +inf is    *)
(* <<1,0,1>>, -inf is <<-1,0,1>> and NaN is <<0,0,1>>, and comparisons     *)
(* follow IEEE (every comparison with NaN is false).  Rounding error of    *)
(* float64 is not modelled.                                                *)
(*                                                                         *)
(* Arrays live on a heap so that in-place writes (np.fill_diagonal) and    *)
(* fresh allocations (X - mean, C / outer) are told apart.                 *)
(***************************************************************************)
EXTENDS Integers, Sequences, FiniteSets, TLC

VARIABLES heap,   \* the arrays the caller can reach; heap[1] is its input
          out,    \* the record of the last call: operation, outcome, results
          X0      \* the input as the caller built it (never assigned again)

vars == <<heap, out, X0>>

---------------------------------------------------------------------------
(* Bounds of the model.                                                    *)

\* largest number of entries (rows x columns) of an enumerated input matrix
MaxCells == 6
\* largest number of columns of an axis-aligned pca input
MaxAxes == 3
\* pca is called with var = k / VarDen
VarDen == 4

\* entries of the enumerated input matrices
Entries == {-1, 0, 1}
\* amplitudes of the columns of an axis-aligned pca input
Amps == {0, 1, 2}

---------------------------------------------------------------------------
(* With(e, LAMBDA x : body) is body with x standing for the value of e,    *)
(* evaluated once: one assignment statement of the code.                   *)

With(e, F(_)) == F(e)

---------------------------------------------------------------------------
(* Exact numbers with the IEEE specials.                                   *)

Abs(k) == IF k < 0 THEN -k ELSE k

Sgn(k) == IF k < 0 THEN -1 ELSE IF k = 0 THEN 0 ELSE 1

RECURSIVE Gcd(_, _)
Gcd(a, b) == IF b = 0 THEN a ELSE Gcd(b, a % b)

\* the largest k with k*k dividing n (n >= 1)
SqPart(n) ==
    IF n = 1 THEN 1
    ELSE With({k \in 1..n : k * k <= n /\ n % (k * k) = 0},
              LAMBDA S : CHOOSE k \in S : \A j \in S : j <= k)

NaN == <<0, 0, 1>>
PosInf == <<1, 0, 1>>
NegInf == <<-1, 0, 1>>
Zero == <<0, 1, 1>>
One == <<1, 1, 1>>

\* the placeholder for an entry of a non-numeric (string) array
NonNum == <<0, 0, 0>>

I(k) == <<k, 1, 1>>

IsNaN(x) == x = NaN
IsInf(x) == x = PosInf \/ x = NegInf
IsFinite(x) == x[2] > 0

Lowest(p, q, r, g) == <<p \div g, q \div g, r>>

\* (p/q)*sqrt(r), q > 0, r squarefree, brought to lowest terms
Norm(p, q, r) == IF p = 0 THEN Zero ELSE Lowest(p, q, r, Gcd(Abs(p), q))

Neg(x) == <<-x[1], x[2], x[3]>>

Mul(x, y) ==
    IF IsNaN(x) \/ IsNaN(y) THEN NaN
    ELSE IF IsInf(x) \/ IsInf(y)
         THEN IF x[1] = 0 \/ y[1] = 0 THEN NaN
              ELSE IF Sgn(x[1]) * Sgn(y[1]) > 0 THEN PosInf ELSE NegInf
         ELSE With(Gcd(x[3], y[3]),
                   LAMBDA g : Norm(x[1] * y[1] * g, x[2] * y[2],
                                   (x[3] \div g) * (y[3] \div g)))

\* x / y as float64 divides: a zero divisor gives inf or NaN, never an error
Div(x, y) ==
    IF IsNaN(x) \/ IsNaN(y) THEN NaN
    ELSE IF IsInf(y)
         THEN IF IsInf(x) THEN NaN ELSE Zero
         ELSE IF y[1] = 0
              THEN IF x[1] = 0 THEN NaN
                   ELSE IF x[1] > 0 THEN PosInf ELSE NegInf
              ELSE IF IsInf(x)
                   THEN IF Sgn(x[1]) * Sgn(y[1]) > 0 THEN PosInf ELSE NegInf
                   ELSE Mul(x, Norm(Sgn(y[1]) * y[2], Abs(y[1]) * y[3], y[3]))

\* x + y; finite operands carry the same radical (every sum the code takes
\* is a sum of rationals)
Add(x, y) ==
    IF IsNaN(x) \/ IsNaN(y) THEN NaN
    ELSE IF IsInf(x) /\ IsInf(y) THEN (IF x = y THEN x ELSE NaN)
    ELSE IF IsInf(x) THEN x
    ELSE IF IsInf(y) THEN y
    ELSE CASE x[1] = 0 -> y
           [] y[1] = 0 -> x
           [] x[1] # 0 /\ y[1] # 0 /\ x[3] = y[3] ->
                Norm(x[1] * y[2] + y[1] * x[2], x[2] * y[2], x[3])

Sub(x, y) == Add(x, Neg(y))

\* np.sqrt: NaN for a negative number; the operand is rational
Sqrt(x) ==
    IF IsNaN(x) \/ x[1] < 0 THEN NaN
    ELSE IF x = PosInf THEN PosInf
    ELSE CASE x[1] = 0 -> Zero
           [] x[1] > 0 /\ x[3] = 1 ->
                With(SqPart(x[1]), LAMBDA sp :
                With(SqPart(x[2]), LAMBDA sq :
                    Norm(sp * sq, x[2],
                         (x[1] \div (sp * sp)) * (x[2] \div (sq * sq)))))

\* the square of a finite number, as the fraction <<numerator, denominator>>
Square(x) == <<x[1] * x[1] * x[3], x[2] * x[2]>>

\* IEEE comparisons: false when either side is NaN
Lt(x, y) ==
    /\ ~IsNaN(x) /\ ~IsNaN(y)
    /\ IF IsInf(x) \/ IsInf(y)
       THEN x # y /\ (x = NegInf \/ y = PosInf)
       ELSE IF x[3] = 1 /\ y[3] = 1 THEN x[1] * y[2] < y[1] * x[2]
       ELSE IF Sgn(x[1]) # Sgn(y[1]) THEN Sgn(x[1]) < Sgn(y[1])
       ELSE IF x[1] > 0
            THEN Square(x)[1] * Square(y)[2] < Square(y)[1] * Square(x)[2]
            ELSE Square(y)[1] * Square(x)[2] < Square(x)[1] * Square(y)[2]

Eq(x, y) == ~IsNaN(x) /\ ~IsNaN(y) /\ x = y

Leq(x, y) == Lt(x, y) \/ Eq(x, y)

Geq(x, y) == Leq(y, x)

---------------------------------------------------------------------------
(* Arrays.  An array is a record: isarr (it is a numpy.ndarray, not a list *)
(* or another object), dtype, ndim, and data, its entries laid out as rows.*)
(* A 1-dimensional array keeps its entries in one row, a 3-dimensional one *)
(* has shape (1, rows, columns), a 0-dimensional one holds one entry.      *)

Array(dtype, ndim, data) ==
    [isarr |-> TRUE, dtype |-> dtype, ndim |-> ndim, data |-> data]

\* a Python list of lists: a matrix to the eye, no numpy.ndarray
List(data) == [isarr |-> FALSE, dtype |-> "int64", ndim |-> 2, data |-> data]

Rows(a) == Len(a.data)
Cols(a) == Len(a.data[1])

\* X.shape
Shape(a) ==
    CASE a.ndim = 0 -> <<>>
      [] a.ndim = 1 -> <<Cols(a)>>
      [] a.ndim = 2 -> <<Rows(a), Cols(a)>>
      [] a.ndim = 3 -> <<1, Rows(a), Cols(a)>>

\* numpy has arithmetic for the dtype; it has none for strings
IsNumeric(a) == a.dtype # "str"

\* the sequence <<f(1), ..., f(n)>>
Vector(n, f(_)) == SubSeq([k \in 1..n |-> f(k)], 1, n)

\* the n x d matrix of the entries f(r, c), as a sequence of rows
Matrix(n, d, f(_, _)) == Vector(n, LAMBDA r : Vector(d, LAMBDA c : f(r, c)))

RECURSIVE SumSeq(_)
SumSeq(s) ==
    IF s = <<>> THEN Zero ELSE Add(SumSeq(SubSeq(s, 1, Len(s) - 1)), s[Len(s)])

Column(M, c) == Vector(Len(M), LAMBDA r : M[r][c])

Transpose(M) == Matrix(Len(M[1]), Len(M), LAMBDA r, c : M[c][r])

\* np.dot of two matrices
Dot(A, B) ==
    Matrix(Len(A), Len(B[1]),
           LAMBDA r, c : SumSeq(Vector(Len(B), LAMBDA k : Mul(A[r][k], B[k][c]))))

\* np.mean(X, axis=0, keepdims=True): the 1 x d row of column averages
NpMean(M) ==
    Matrix(1, Len(M[1]), LAMBDA r, c : Div(SumSeq(Column(M, c)), I(Len(M))))

\* X - mean, the row `mean` broadcast over the rows of X
SubRow(M, mean) ==
    Matrix(Len(M), Len(M[1]), LAMBDA r, c : Sub(M[r][c], mean[1][c]))

\* M / k, every entry divided by the integer k
DivScalar(M, k) == Matrix(Len(M), Len(M[1]), LAMBDA r, c : Div(M[r][c], I(k)))

---------------------------------------------------------------------------
(* The heap.  A call receives the heap and the address of its argument and *)
(* gives back the heap it leaves, how it ended and the addresses returned. *)

Alloc(h, a) == Append(h, a)
Fresh(h) == Len(h) + 1

Raise(h, kind) == [heap |-> h, kind |-> kind, refs |-> <<>>]
Return(h, refs) == [heap |-> h, kind |-> "ok", refs |-> refs]

---------------------------------------------------------------------------
(* 0-mean_cov.py                                                           *)

\* variant: the biased estimator, which divides by n
CovDivisorBiased(n) == n

\* the divisor of the covariance: n - 1, the unbiased estimator
CovDivisor(n) == n - 1

\* variant: the data left uncentred
Uncentred(M, mean) == M

\* X_centered = X - mean
Center(M, mean) == SubRow(M, mean)

\* cov = np.dot(X_centered.T, X_centered) / (n - 1)
Covariance(X_centered, n) ==
    DivScalar(Dot(Transpose(X_centered), X_centered), CovDivisor(n))

\* variant: a single data point let through
TooFewRowsLax(n) == n < 1

\* if n < 2
TooFewRows(n) == n < 2

mean_cov(h, x) ==
    LET X == h[x]
    IN  IF ~X.isarr \/ X.ndim # 2 THEN Raise(h, "TypeError")
        ELSE IF TooFewRows(Shape(X)[1]) THEN Raise(h, "ValueError")
        ELSE IF ~IsNumeric(X) THEN Raise(h, "TypeError")
        ELSE With(NpMean(X.data), LAMBDA mean :
             With(Center(X.data, mean), LAMBDA X_centered :
             With(Covariance(X_centered, Shape(X)[1]), LAMBDA cov :
                 Return(h \o <<Array("float64", 2, mean),
                               Array("float64", 2, X_centered),
                               Array("float64", 2, cov)>>,
                        <<Fresh(h), Fresh(h) + 2>>))))

---------------------------------------------------------------------------
(* 1-correlation.py                                                        *)

\* np.diag(C): the diagonal of a square matrix
Diag(M) == Vector(Len(M), LAMBDA i : M[i][i])

\* std_devs = np.sqrt(np.diag(C))
StdDevs(M) == Vector(Len(M), LAMBDA i : Sqrt(M[i][i]))

\* np.outer(u, v)
Outer(u, v) == Matrix(Len(u), Len(v), LAMBDA r, c : Mul(u[r], v[c]))

\* what C is divided by: np.outer(std_devs, std_devs)
Denominator(M) == Outer(StdDevs(M), StdDevs(M))

\* variant: C /= np.outer(std_devs, std_devs), the quotient written into C
TrueDivideInPlace(h, c, D) ==
    [heap |-> [h EXCEPT ![c].data =
                  Matrix(Len(D), Len(D[1]),
                         LAMBDA i, j : Div(h[c].data[i][j], D[i][j]))],
     ref |-> c]

\* corr = C / np.outer(std_devs, std_devs): the quotient is a new array
TrueDivide(h, c, D) ==
    [heap |-> Alloc(h, Array("float64", 2,
                  Matrix(Len(D), Len(D[1]),
                         LAMBDA i, j : Div(h[c].data[i][j], D[i][j])))),
     ref |-> Fresh(h)]

\* variant: the diagonal overwritten with 0
FillValueZero == Zero

\* the value np.fill_diagonal writes
FillValue == One

\* variant: the diagonal left as the division gave it
NoFillDiagonal(h, a, v) == h

\* np.fill_diagonal(a, v): writes the diagonal of the array at address a
FillDiagonal(h, a, v) ==
    [h EXCEPT ![a].data =
        Matrix(Len(h[a].data), Len(h[a].data[1]),
               LAMBDA i, j : IF i = j THEN v ELSE h[a].data[i][j])]

\* variant: the shape error raised as a TypeError
ShapeErrorAsType == "TypeError"

\* raise ValueError("C must be a 2D square matrix")
ShapeError == "ValueError"

\* if C.ndim != 2 or C.shape[0] != C.shape[1]
NotSquare(C) == C.ndim # 2 \/ Shape(C)[1] # Shape(C)[2]

correlation(h, c) ==
    LET C == h[c]
    IN  IF ~C.isarr THEN Raise(h, "TypeError")
        ELSE IF NotSquare(C) THEN Raise(h, ShapeError)
        ELSE IF ~IsNumeric(C) THEN Raise(h, "TypeError")
        ELSE With(TrueDivide(h, c, Denominator(C.data)), LAMBDA corr :
                 Return(FillDiagonal(corr.heap, corr.ref, FillValue), <<corr.ref>>))

---------------------------------------------------------------------------
(* 0-pca.py                                                                *)

\* the argument var: its Python type and its value
Var(type, val) == [type |-> type, val |-> val]
NoVar == Var("none", NaN)

\* variant: isinstance(var, float)
IsFloat(v) == v.type = "float"

\* isinstance(var, (int, float)); bool is a subclass of int
IsIntOrFloat(v) == v.type \in {"int", "float", "bool"}

\* not isinstance(var, (int, float)) or not (0 < var <= 1)
BadVar(v) == ~IsIntOrFloat(v) \/ ~(Lt(Zero, v.val) /\ Leq(v.val, One))

\* np.cov(X.T) of the n x d matrix M: the variables are the d columns, the
\* divisor is n - 1 (0.0 when n = 1), and the result is squeezed, so that a
\* single variable gives a 0-dimensional array
NpCov(M) ==
    LET n == Len(M)
        d == Len(M[1])
    IN  With(Transpose(M), LAMBDA Xt :
        With(Vector(d, LAMBDA i : Div(SumSeq(Xt[i]), I(n))), LAMBDA avg :
        With(Matrix(d, n, LAMBDA i, k : Sub(Xt[i][k], avg[i])), LAMBDA Xc :
        With(Dot(Xc, Transpose(Xc)), LAMBDA c :
        With(Div(One, I(n - 1)), LAMBDA f :
            Array("float64", IF d = 1 THEN 0 ELSE 2,
                  Matrix(d, d, LAMBDA i, j : Mul(c[i][j], f))))))))

AllFinite(M) == \A i \in 1..Len(M) : \A j \in 1..Len(M[1]) : IsFinite(M[i][j])

IsDiagonal(M) ==
    \A i \in 1..Len(M) : \A j \in 1..Len(M[1]) : i # j => M[i][j] = Zero

Identity(d) == Matrix(d, d, LAMBDA i, j : IF i = j THEN One ELSE Zero)

\* np.linalg.eig rejects an array of fewer than two dimensions and one with
\* inf or NaN entries
EigRejects(C) == C.ndim < 2 \/ ~AllFinite(C.data)

\* np.linalg.eig(C) of a diagonal matrix: the eigenvalues are the diagonal,
\* in its order, and the eigenvectors the columns of the identity
EigModelled(C) == EigRejects(C) \/ IsDiagonal(C.data)
EigValues(C) == Diag(C.data)
EigVectors(C) == Identity(Len(C.data))

\* np.argsort(Eigs): the indices that sort Eigs ascending, equal values in
\* their order of appearance (0-based positions are 1-based here)
ArgSort(E) ==
    LET rank(i) == Cardinality({j \in 1..Len(E) :
                       Lt(E[j], E[i]) \/ (E[j] = E[i] /\ j < i)}) + 1
    IN  Vector(Len(E), LAMBDA k : CHOOSE i \in 1..Len(E) : rank(i) = k)

\* s[::-1]
Reverse(s) == Vector(Len(s), LAMBDA k : s[Len(s) + 1 - k])

\* sorted_eigs = Eigs[idx]
Take(s, idx) == Vector(Len(idx), LAMBDA k : s[idx[k]])

\* sorted_W = W_all[:, idx]
TakeColumns(M, idx) == Matrix(Len(M), Len(idx), LAMBDA i, k : M[i][idx[k]])

\* np.cumsum
CumSum(s) == Vector(Len(s), LAMBDA k : SumSeq(SubSeq(s, 1, k)))

\* explained_variance_ratio = cumulative_variance / total_variance
Ratios(cumulative_variance, total_variance) ==
    Vector(Len(cumulative_variance),
           LAMBDA k : Div(cumulative_variance[k], total_variance))

\* variant: explained_variance_ratio > var
ReachesStrictly(ratio, v) == Lt(v, ratio)

\* one entry of explained_variance_ratio >= var
Reaches(ratio, v) == Geq(ratio, v)

\* np.argmax of a boolean array: the 0-based position of its first True, 0
\* when there is none
ArgMax(b) ==
    IF \E k \in 1..Len(b) : b[k]
    THEN (CHOOSE k \in 1..Len(b) : b[k] /\ \A j \in 1..(k - 1) : ~b[j]) - 1
    ELSE 0

\* nd = np.argmax(explained_variance_ratio >= var) + 1
NewDim(sorted_eigs, v) ==
    With(Ratios(CumSum(sorted_eigs), SumSeq(sorted_eigs)),
         LAMBDA explained_variance_ratio :
             ArgMax(Vector(Len(sorted_eigs),
                 LAMBDA k : Reaches(explained_variance_ratio[k], v.val))) + 1)

\* W = sorted_W[:, :nd]
FirstColumns(M, nd) == Matrix(Len(M), nd, LAMBDA i, k : M[i][k])

pca(h, x, v) ==
    LET X == h[x]
    IN  IF ~X.isarr \/ Len(Shape(X)) # 2 THEN Raise(h, "TypeError")
        ELSE IF BadVar(v) THEN Raise(h, "ValueError")
        ELSE IF ~IsNumeric(X) THEN Raise(h, "TypeError")
        ELSE With(NpCov(X.data), LAMBDA C :
             IF EigRejects(C) THEN Raise(h, "LinAlgError")
             ELSE With(Reverse(ArgSort(EigValues(C))), LAMBDA idx :
                  With(NewDim(Take(EigValues(C), idx), v), LAMBDA nd :
                  With(FirstColumns(TakeColumns(EigVectors(C), idx), nd), LAMBDA W :
                      Return(Alloc(h, Array("float64", 2, W)), <<Fresh(h)>>)))))

---------------------------------------------------------------------------
(* The caller.  It holds one input array, heap[1], calls the functions on  *)
(* it or on what they returned, and keeps the results of the last call;    *)
(* everything else a call allocated is garbage when it returns.            *)

Call(op, kind, src, arg, refs, v, check) ==
    [op |-> op, kind |-> kind, src |-> src, arg |-> arg, refs |-> refs,
     var |-> v, check |-> check]

NoCall == Call("none", "none", "none", 0, <<>>, NoVar, "none")

\* the address, after collection, of the array at address a
Renumber(roots, a) == Cardinality({b \in roots : b <= a})

\* the heap with only the arrays at `roots` kept, in address order
Collect(h, roots) ==
    Vector(Cardinality(roots),
           LAMBDA k : h[CHOOSE a \in roots : Renumber(roots, a) = k])

Range(s) == {s[k] : k \in 1..Len(s)}

\* the caller's state after the call that ended as r, made on address arg
Finish(op, src, arg, v, check, r) ==
    LET roots == {1, arg} \cup Range(r.refs)
    IN  /\ heap' = Collect(r.heap, roots)
        /\ out' = Call(op, r.kind, src, Renumber(roots, arg),
                       Vector(Len(r.refs), LAMBDA k : Renumber(roots, r.refs[k])),
                       v, check)
        /\ X0' = X0

\* mean, cov = mean_cov(X)
CallMeanCov ==
    Finish("mean_cov", "input", 1, NoVar, "none", mean_cov(heap, 1))

\* corr = correlation(X)
CallCorrelation ==
    Finish("correlation", "input", 1, NoVar, "none", correlation(heap, 1))

\* corr = correlation(cov) on the covariance mean_cov returned, and
\* correlation(corr) on the matrix correlation returned
CallCorrelationOnResult ==
    /\ out.kind = "ok"
    /\ \/ out.op = "mean_cov"
       \/ out.op = "correlation" /\ out.src # "correlation"
    /\ LET arg == out.refs[Len(out.refs)]
       IN  Finish("correlation", out.op, arg, NoVar, "none", correlation(heap, arg))

\* the inputs on which the model knows what np.linalg.eig returns
PcaModelled(X) ==
    \/ ~X.isarr \/ X.ndim # 2 \/ ~IsNumeric(X)
    \/ EigModelled(NpCov(X.data))

\* W = pca(X, var)
CallPca(v) == Finish("pca", "input", 1, v, "none", pca(heap, 1, v))

\* def pca(X, var=0.95)
DefaultVar == Var("float", <<19, 20, 1>>)

\* W = pca(X)
CallPcaDefault == PcaModelled(heap[1]) /\ CallPca(DefaultVar)

\* the number of columns of the array at address a: W.shape[1]
NumCols(h, a) == Cols(h[a])

\* print(f"Check: Is {d_80} <= {d_95} <= {d_99}? ...")
Check(d_80, d_95, d_99) == IF d_80 <= d_95 /\ d_95 <= d_99 THEN "Yes" ELSE "No"

\* the script of 0-pca.py on the caller's X: W_95, W_99 and W_80, then the
\* printed check that d_80 <= d_95 <= d_99; the first call that raises ends it
Main ==
    With(pca(heap, 1, DefaultVar), LAMBDA W_95 :
    IF W_95.kind # "ok" THEN Finish("main", "input", 1, NoVar, "none", W_95)
    ELSE With(pca(W_95.heap, 1, Var("float", <<99, 100, 1>>)), LAMBDA W_99 :
    IF W_99.kind # "ok" THEN Finish("main", "input", 1, NoVar, "none", W_99)
    ELSE With(pca(W_99.heap, 1, Var("float", <<4, 5, 1>>)), LAMBDA W_80 :
    IF W_80.kind # "ok" THEN Finish("main", "input", 1, NoVar, "none", W_80)
    ELSE Finish("main", "input", 1, NoVar,
                Check(NumCols(W_80.heap, W_80.refs[1]),
                      NumCols(W_95.heap, W_95.refs[1]),
                      NumCols(W_99.heap, W_99.refs[1])),
                Return(W_80.heap, W_95.refs \o W_99.refs \o W_80.refs)))))

---------------------------------------------------------------------------
(* Inputs.                                                                 *)

IntMatrix(n, d, f(_, _)) == Array("int64", 2, Matrix(n, d, LAMBDA r, c : I(f(r, c))))

\* X = [[1,2],[3,4],[5,6],[7,8]]
Scenario1 == IntMatrix(4, 2, LAMBDA r, c : 2 * (r - 1) + c)

\* C = [[4,2],[2,9]]
Scenario2 == IntMatrix(2, 2, LAMBDA r, c : IF r # c THEN 2 ELSE IF r = 1 THEN 4 ELSE 9)

StrMatrix(n, d) == Array("str", 2, Matrix(n, d, LAMBDA r, c : NonNum))

\* what is no 2-dimensional numeric array: lists, arrays of another
\* dimension, arrays of strings
Malformed ==
    { List(Scenario2.data), List(Matrix(1, 2, LAMBDA r, c : One)),
      Array("int64", 1, Matrix(1, 2, LAMBDA r, c : One)),
      Array("int64", 3, Scenario2.data),
      Array("str", 1, Matrix(1, 2, LAMBDA r, c : NonNum)),
      StrMatrix(1, 2), StrMatrix(2, 2), StrMatrix(2, 3) }

\* the centred 2d x d matrix whose column j holds +a[j] and -a[j] in rows
\* 2j-1 and 2j and 0 elsewhere: its covariance is diagonal
AxisDesign(a) ==
    IntMatrix(2 * Len(a), Len(a),
              LAMBDA r, c : IF (r + 1) \div 2 # c THEN 0
                            ELSE IF r % 2 = 1 THEN a[c] ELSE -a[c])

\* the values pca is called with
Vars ==
    {Var("float", Norm(k, VarDen, 1)) : k \in (-1)..(VarDen + 2)}
    \cup {Var("float", <<4, 5, 1>>), DefaultVar, Var("float", <<99, 100, 1>>),
          Var("float", NaN), Var("int", One), Var("int", I(2)), Var("bool", One),
          Var("np.float32", <<1, 2, 1>>), Var("str", NaN)}

Start(x) == heap = <<x>> /\ X0 = x /\ out = NoCall

\* every n x d integer matrix over Entries with at most MaxCells entries
InitEnumerated ==
    \E n \in 1..MaxCells, d \in 1..MaxCells :
        /\ n * d <= MaxCells
        /\ \E m \in [1..n -> [1..d -> Entries]] :
               Start(IntMatrix(n, d, LAMBDA r, c : m[r][c]))

InitFixed == \E x \in {Scenario1, Scenario2} \cup Malformed : Start(x)

Init == InitEnumerated \/ InitFixed

Next ==
    \/ CallMeanCov
    \/ CallCorrelation
    \/ CallCorrelationOnResult
    \/ CallPcaDefault

Spec == Init /\ [][Next]_vars

InitAxis == \E d \in 1..MaxAxes : \E a \in [1..d -> Amps] : Start(AxisDesign(a))

InitMalformed == \E x \in Malformed : Start(x)

InitPca == InitAxis \/ InitMalformed

NextPca ==
    /\ PcaModelled(heap[1])
    /\ \/ \E v \in Vars : CallPca(v)
       \/ Main

SpecPca == InitPca /\ [][NextPca]_vars

---------------------------------------------------------------------------
(* Properties.  Each is stated on the caller's state: X0 is the input, out *)
(* the last call, heap[out.arg] its argument and heap[out.refs[k]] what it *)
(* returned.  What a property expects is computed from the integers of X0  *)
(* by a route of its own, not with the operators of the functions.         *)

\* f(1) + ... + f(n), in the integers
IntSum(n, f(_)) ==
    LET s[k \in 0..n] == IF k = 0 THEN 0 ELSE s[k - 1] + f(k)
    IN  s[n]

\* x is the rational a / b (b > 0)
RatEq(x, a, b) == x[3] = 1 /\ x[2] > 0 /\ x[1] * b = a * x[2]

\* the integer at row r, column c of an integer matrix
Raw(a, r, c) == a.data[r][c][1]

\* the sum of column c of X0, and of the products of its columns i and j
ColSum(c) == IntSum(Rows(X0), LAMBDA r : Raw(X0, r, c))
ColProd(i, j) == IntSum(Rows(X0), LAMBDA r : Raw(X0, r, i) * Raw(X0, r, j))

\* n*n times the sum of the squared deviations of column c from its average
ColDev2(c) ==
    IntSum(Rows(X0), LAMBDA r : (Rows(X0) * Raw(X0, r, c) - ColSum(c))
                                * (Rows(X0) * Raw(X0, r, c) - ColSum(c)))

Is2DArray(a) == a.isarr /\ a.ndim = 2
HasNumbers(a) == a.dtype # "str"

\* a sample matrix mean_cov is specified on: 2-dimensional, numeric, n >= 2
ValidSamples(a) == Is2DArray(a) /\ HasNumbers(a) /\ Rows(a) >= 2

\* the last call was mean_cov(X0) on a valid sample matrix
MeanCovOfValid == out.op = "mean_cov" /\ ValidSamples(X0)

\* what mean_cov returned
MeanOut == heap[out.refs[1]]
CovOut == heap[out.refs[2]]

\* C1: for every 2-dimensional numeric X with n >= 2 rows and d >= 1
\* columns, mean_cov(X) returns the 1 x d row of column averages and the
\* d x d matrix of the sums of products of deviations divided by n - 1; for
\* X = [[1,2],[3,4],[5,6],[7,8]] the mean is [4,5] and every covariance 20/3.
C1_MeanCovUnbiased ==
    MeanCovOfValid =>
        /\ out.kind = "ok"
        /\ Len(out.refs) = 2
        /\ LET n == Rows(X0)
               d == Cols(X0)
           IN  /\ Shape(MeanOut) = <<1, d>>
               /\ Shape(CovOut) = <<d, d>>
               /\ \A c \in 1..d : RatEq(MeanOut.data[1][c], ColSum(c), n)
               /\ \A i, j \in 1..d :
                      RatEq(CovOut.data[i][j],
                            n * ColProd(i, j) - ColSum(i) * ColSum(j),
                            n * (n - 1))
        /\ X0 = Scenario1 =>
               /\ MeanOut.data = << <<I(4), I(5)>> >>
               /\ \A i, j \in 1..2 : CovOut.data[i][j] = <<20, 3, 1>>

\* mean_cov returned on X = [[1,2],[3,4],[5,6],[7,8]], with covariance 20/3
C1_Witness ==
    /\ MeanCovOfValid /\ out.kind = "ok"
    /\ X0 = Scenario1
    /\ CovOut.data[1][2] = <<20, 3, 1>>

\* C9: for every valid X the covariance mean_cov returns is symmetric, and
\* each diagonal entry is non-negative and equals the unbiased sample
\* variance of its column: the squared deviations from the column average,
\* summed and divided by n - 1.
C9_CovSymmetricVariance ==
    MeanCovOfValid =>
        /\ out.kind = "ok"
        /\ LET n == Rows(X0)
               d == Cols(X0)
               C == CovOut.data
           IN  /\ \A i, j \in 1..d : Eq(C[i][j], C[j][i])
               /\ \A i \in 1..d :
                      /\ Geq(C[i][i], Zero)
                      /\ RatEq(C[i][i], ColDev2(i), n * n * (n - 1))

\* mean_cov returned a covariance with unequal variances and a non-zero
\* covariance between two columns of non-zero average
C9_Witness ==
    /\ MeanCovOfValid /\ out.kind = "ok"
    /\ Cols(X0) >= 2
    /\ ColSum(1) # 0 /\ ColSum(2) # 0
    /\ CovOut.data[1][2] # Zero
    /\ CovOut.data[1][1] # CovOut.data[2][2]

\* a failed call gives the caller nothing
NothingReturned == out.refs = <<>>

\* C4 as the specification states it: mean_cov raises TypeError whenever X
\* is not a well-formed 2-dimensional numeric matrix, ValueError whenever X
\* is such a matrix with fewer than 2 rows, the type check first, and
\* returns nothing in either case.
C4_Original ==
    out.op = "mean_cov" =>
        /\ ~(Is2DArray(X0) /\ HasNumbers(X0)) =>
               out.kind = "TypeError" /\ NothingReturned
        /\ (Is2DArray(X0) /\ HasNumbers(X0) /\ Rows(X0) < 2) =>
               out.kind = "ValueError" /\ NothingReturned

\* C4, amended: mean_cov raises TypeError whenever X is not a 2-dimensional
\* numpy array, and ValueError whenever X is a 2-dimensional numpy array
\* with fewer than 2 rows, whatever its entries are; the dimension check
\* precedes the row count.  A 2-dimensional array of non-numeric entries
\* with 2 rows or more raises TypeError in np.mean.  Nothing is returned.
C4_Amended ==
    out.op = "mean_cov" =>
        /\ ~Is2DArray(X0) => out.kind = "TypeError"
        /\ (Is2DArray(X0) /\ Rows(X0) < 2) => out.kind = "ValueError"
        /\ (Is2DArray(X0) /\ Rows(X0) >= 2 /\ ~HasNumbers(X0)) =>
               out.kind = "TypeError"
        /\ out.kind # "ok" => NothingReturned

\* mean_cov raised ValueError on a one-row array of strings
C4_Witness ==
    /\ out.op = "mean_cov" /\ out.kind = "ValueError"
    /\ Is2DArray(X0) /\ ~HasNumbers(X0) /\ Rows(X0) = 1

\* the last call was correlation on the caller's input
CorrelationOfInput == out.op = "correlation" /\ out.src = "input"

IsSquare2D(a) == a.ndim = 2 /\ Rows(a) = Cols(a)

\* C6 as the specification states it: correlation raises TypeError whenever
\* its input is not numeric and ValueError whenever the (numeric) input is
\* not a square 2-dimensional matrix, and returns nothing in either case.
C6_Original ==
    CorrelationOfInput =>
        /\ ~(X0.isarr /\ HasNumbers(X0)) =>
               out.kind = "TypeError" /\ NothingReturned
        /\ (X0.isarr /\ HasNumbers(X0) /\ ~IsSquare2D(X0)) =>
               out.kind = "ValueError" /\ NothingReturned

\* C6, amended: correlation raises TypeError whenever its input is not a
\* numpy array, and ValueError whenever the input is a numpy array that is
\* not square and 2-dimensional, whatever its entries are; a square
\* 2-dimensional array of non-numeric entries raises TypeError in np.sqrt.
\* Nothing is returned in any of these cases.
C6_Amended ==
    CorrelationOfInput =>
        /\ ~X0.isarr => out.kind = "TypeError"
        /\ (X0.isarr /\ ~IsSquare2D(X0)) => out.kind = "ValueError"
        /\ (X0.isarr /\ IsSquare2D(X0) /\ ~HasNumbers(X0)) =>
               out.kind = "TypeError"
        /\ out.kind # "ok" => NothingReturned

\* correlation raised ValueError on a 2 x 3 array of strings
C6_Witness ==
    /\ CorrelationOfInput /\ out.kind = "ValueError"
    /\ Is2DArray(X0) /\ ~HasNumbers(X0) /\ Rows(X0) # Cols(X0)

\* an integer matrix that is a covariance matrix: symmetric and positive
\* semi-definite, which for the 1 x 1 and 2 x 2 matrices it is asked of is
\* a non-negative diagonal and C[i][j]^2 <= C[i][i] * C[j][j]
IsCovariance(a) ==
    /\ Is2DArray(a) /\ HasNumbers(a)
    /\ Rows(a) = Cols(a) /\ Rows(a) <= 2
    /\ \A i, j \in 1..Rows(a) :
           /\ Raw(a, i, j) = Raw(a, j, i)
           /\ Raw(a, i, i) >= 0
           /\ Raw(a, i, j) * Raw(a, i, j) <= Raw(a, i, i) * Raw(a, j, j)

\* the last call was correlation(C) on a valid covariance matrix: one that
\* mean_cov returned, or an input that is one
CorrelationOfCovariance ==
    /\ out.op = "correlation"
    /\ \/ out.src = "mean_cov"
       \/ out.src = "input" /\ IsCovariance(X0)

\* the matrix correlation was called on, and the matrix it returned
CorrArg == heap[out.arg].data
CorrOut == heap[out.refs[1]].data

Indices(M) == 1..Len(M)

DiagonalIsOne(M) == \A i \in Indices(M) : M[i][i] = One

\* result[i][j] == result[j][i] for all i, j, as floats compare
SymmetricByEq(M) == \A i, j \in Indices(M) : Eq(M[i][j], M[j][i])

\* C3 as the specification states it: for any valid covariance matrix C,
\* correlation(C) has every diagonal entry exactly 1 and is symmetric,
\* result[i][j] == result[j][i] for all i and j.
C3_Original ==
    CorrelationOfCovariance =>
        /\ out.kind = "ok"
        /\ DiagonalIsOne(CorrOut)
        /\ SymmetricByEq(CorrOut)

\* C3, amended: for any valid covariance matrix C, correlation(C) has every
\* diagonal entry exactly 1; it is symmetric, result[i][j] == result[j][i],
\* when every diagonal entry of C is strictly positive, and when C[i][i] is
\* 0 every other entry of row i and of column i is NaN (0/0), which equals
\* nothing, itself included.
C3_Amended ==
    CorrelationOfCovariance =>
        /\ out.kind = "ok"
        /\ DiagonalIsOne(CorrOut)
        /\ (\A i \in Indices(CorrArg) : Lt(Zero, CorrArg[i][i])) =>
               SymmetricByEq(CorrOut)
        /\ \A i, j \in Indices(CorrArg) :
               (i # j /\ CorrArg[i][i] = Zero) =>
                   IsNaN(CorrOut[i][j]) /\ IsNaN(CorrOut[j][i])

\* correlation returned, on a covariance mean_cov computed, a coefficient
\* strictly between 0 and 1 that is no rational number
C3_Witness ==
    /\ CorrelationOfCovariance /\ out.src = "mean_cov" /\ out.kind = "ok"
    /\ \E i, j \in Indices(CorrOut) :
           /\ i # j
           /\ CorrOut[i][j][3] > 1
           /\ Lt(Zero, CorrOut[i][j]) /\ Lt(CorrOut[i][j], One)

\* the last call was correlation on the matrix correlation had returned
CorrelationTwice == out.op = "correlation" /\ out.src = "correlation"

\* C8 as the specification states it: for every square matrix C that
\* correlation accepts, correlation(correlation(C)) equals correlation(C)
\* entry by entry.
C8_Original ==
    CorrelationTwice =>
        /\ out.kind = "ok"
        /\ \A i, j \in Indices(CorrArg) : Eq(CorrOut[i][j], CorrArg[i][j])

\* C8, amended: for every square matrix C that correlation accepts,
\* correlation(correlation(C)) repeats correlation(C): each entry that is a
\* number or an infinity is equal in both, each entry that is NaN is NaN in
\* both; the two are equal entry by entry exactly when correlation(C) holds
\* no NaN.
C8_Amended ==
    CorrelationTwice =>
        /\ out.kind = "ok"
        /\ Len(CorrOut) = Len(CorrArg)
        /\ \A i, j \in Indices(CorrArg) :
               IF IsNaN(CorrArg[i][j]) THEN IsNaN(CorrOut[i][j])
               ELSE Eq(CorrOut[i][j], CorrArg[i][j])

\* correlation ran on its own result, a matrix with a coefficient that is
\* neither 0 nor 1 nor NaN
C8_Witness ==
    /\ CorrelationTwice /\ out.kind = "ok"
    /\ \E i, j \in Indices(CorrArg) :
           /\ i # j
           /\ IsFinite(CorrArg[i][j])
           /\ CorrArg[i][j] \notin {Zero, One}
           /\ CorrOut[i][j] = CorrArg[i][j]

\* C10: mean_cov, correlation and pca leave the caller's input unchanged on
\* every call, one that raises included: after any sequence of calls the
\* input holds its original entries, the matrix a call was made on holds
\* the entries it had before the call, and what a call returns is an array
\* distinct from the input and from its argument.
C10_InputUnchanged ==
    /\ [](/\ heap[1] = X0
          /\ \A k \in 1..Len(out.refs) : out.refs[k] \notin {1, out.arg})
    /\ [][out'.src \notin {"input", "none"} =>
              heap'[out'.arg] = heap[out.refs[Len(out.refs)]]]_vars

\* correlation returned, on an input whose diagonal is not 1, a matrix that
\* differs from the input
C10_Witness ==
    /\ CorrelationOfInput /\ out.kind = "ok"
    /\ X0.data[1][1] # One
    /\ heap[out.refs[1]].data[1][1] = One
    /\ heap[1] = X0

\* the last call was pca(X0, out.var)
PcaCall == out.op = "pca"

\* var is a number p/q with 0 < p/q <= 1
InUnitInterval(v) == v.val[3] = 1 /\ v.val[2] > 0 /\ 0 < v.val[1] /\ v.val[1] <= v.val[2]

\* var is a real number: a Python int or float or a numpy float, NaN excluded
IsReal(v) == v.type \in {"int", "float", "np.float32"} /\ ~IsNaN(v.val)

\* pca got past its validation: neither of its two errors was raised
Accepted == out.kind \notin {"TypeError", "ValueError"}

\* C5 as the specification states it: pca raises TypeError whenever X is
\* not a 2-dimensional numeric matrix and ValueError whenever var is not a
\* real number in (0, 1]; every real var in (0, 1] is accepted; when both X
\* and var are invalid the error is the TypeError.  (A bool var, which is
\* neither clearly a real number nor clearly none, is left unconstrained.)
C5_Original ==
    (PcaCall /\ out.var.type # "bool") =>
        /\ ~(Is2DArray(X0) /\ HasNumbers(X0)) => out.kind = "TypeError"
        /\ (Is2DArray(X0) /\ HasNumbers(X0)
              /\ ~(IsReal(out.var) /\ InUnitInterval(out.var))) =>
               out.kind = "ValueError"
        /\ (Is2DArray(X0) /\ HasNumbers(X0)
              /\ IsReal(out.var) /\ InUnitInterval(out.var)) => Accepted

\* var is a Python int or float (a bool is an int) with 0 < var <= 1
IsPythonNumberInUnit(v) ==
    v.type \in {"int", "float", "bool"} /\ InUnitInterval(v)

\* C5, amended: pca raises TypeError whenever X is not a 2-dimensional
\* numpy array; otherwise, whatever the entries of X are, it raises
\* ValueError whenever var is not a Python int or float with 0 < var <= 1
\* (a numpy.float32 in range is rejected, True is accepted as 1); every
\* Python int or float in (0, 1] passes the validation, after which an
\* array of non-numeric entries raises TypeError in np.cov.  When X is a
\* 2-dimensional array of non-numeric entries and var is invalid, the error
\* is the ValueError.
C5_Amended ==
    PcaCall =>
        /\ ~Is2DArray(X0) => out.kind = "TypeError"
        /\ (Is2DArray(X0) /\ ~IsPythonNumberInUnit(out.var)) =>
               out.kind = "ValueError"
        /\ (Is2DArray(X0) /\ HasNumbers(X0) /\ IsPythonNumberInUnit(out.var)) =>
               Accepted
        /\ (Is2DArray(X0) /\ ~HasNumbers(X0) /\ IsPythonNumberInUnit(out.var)) =>
               out.kind = "TypeError"
        /\ out.kind # "ok" => NothingReturned

\* pca raised ValueError on a 2-dimensional array of strings and a var
\* above 1
C5_Witness ==
    /\ PcaCall /\ out.kind = "ValueError"
    /\ Is2DArray(X0) /\ ~HasNumbers(X0)
    /\ out.var.type = "float" /\ Lt(One, out.var.val)

\* the covariance of the centred X0: the sums of products of its columns
\* divided by n - 1
CovOfCentred ==
    Matrix(Cols(X0), Cols(X0),
           LAMBDA i, j : Norm(ColProd(i, j), Rows(X0) - 1, 1))

\* the matrix pca returned
WOut == heap[out.refs[1]].data

\* the columns of W are eigenvectors of C with eigenvalues in descending
\* order, the first the largest of C, and W has the fewest columns whose
\* eigenvalues sum to the fraction v of the sum of all
IsLeadingEigenbasis(W, C, v) ==
    LET d == Len(C)
        nd == Len(W[1])
        CW == Dot(C, W)
        lams == Diag(Dot(Transpose(W), CW))
        ratio(k) == Div(SumSeq(SubSeq(lams, 1, k)), SumSeq(Diag(C)))
    IN  /\ Len(W) = d
        /\ nd \in 1..d
        /\ \A i \in 1..d, k \in 1..nd : CW[i][k] = Mul(lams[k], W[i][k])
        /\ \A k \in 1..nd : \E i \in 1..d : W[i][k] # Zero
        /\ \A k \in 1..(nd - 1) : Geq(lams[k], lams[k + 1])
        /\ \A i \in 1..d : Geq(lams[1], C[i][i])
        /\ Geq(ratio(nd), v)
        /\ \A k \in 1..(nd - 1) : ~Geq(ratio(k), v)

\* C2 as the specification states it: for every valid centred X (n x d)
\* and every var with 0 < var <= 1, pca(X, var) returns a d x nd matrix
\* whose columns are the eigenvectors of the covariance of X in descending
\* eigenvalue order, nd the smallest count whose eigenvalues sum to at
\* least var of the total, nd <= d.
C2_Original ==
    (PcaCall /\ ValidSamples(X0)
       /\ out.var.type \in {"int", "float"} /\ InUnitInterval(out.var)) =>
        /\ out.kind = "ok"
        /\ IsLeadingEigenbasis(WOut, CovOfCentred, out.var.val)

\* what of C2 the code does: the same, for the X of two columns or more
\* that are not all zero
C2_WhereDefined ==
    (PcaCall /\ ValidSamples(X0) /\ Cols(X0) >= 2
       /\ (\E c \in 1..Cols(X0) : ColProd(c, c) # 0)
       /\ out.var.type \in {"int", "float"} /\ InUnitInterval(out.var)) =>
        /\ out.kind = "ok"
        /\ IsLeadingEigenbasis(WOut, CovOfCentred, out.var.val)

\* pca kept 2 of 3 components
C2_Witness ==
    /\ PcaCall /\ out.kind = "ok"
    /\ Cols(X0) = 3 /\ Len(WOut[1]) = 2

=============================================================================
